---- MODULE Spec2Model ----
(***************************************************************************)
(* ComputeSum (samples/export/Python/ComputeSum.py): the subroutine        *)
(* readNumbers and the main program that sums and averages what it read.   *)
(* The program is sequential, so one program counter pc walks through the  *)
(* main program and, during the call, through readNumbers.                 *)
(*                                                                         *)
(* The clauses "except Exception, error:" are read as what they are meant  *)
(* to be, a handler for every Exception.                                   *)
(* The FileAPI routines fileOpen, fileEOF, fileReadInt and fileClose are   *)
(* not part of the file; they are modelled from the documentation.         *)
(* Sums are kept as integers (float accumulation of small integers is      *)
(* exact) and the average as the pair numerator / denominator.             *)
(***************************************************************************)
EXTENDS Integers, Sequences, FiniteSets

VARIABLES
    pc,         \* position in the main program / in readNumbers
    file,       \* the NumberFile the entered name stands for
    fileNo,     \* readNumbers: the handle returned by fileOpen
    pos,        \* FileAPI: index of the next token of the open file
    isOpen,     \* FileAPI: the handle is open
    values,     \* main: the list values, known as numbers inside readNumbers
    maxNumbers, \* readNumbers: parameter
    nNumbers,   \* readNumbers: running count
    number,     \* readNumbers: the value read last
    error,      \* readNumbers: the exception pending inside the try block
    failure,    \* the description of the exception readNumbers raised
    result,     \* the value readNumbers returned
    nValues,    \* main
    sum,        \* main
    output,     \* the lines printed so far
    events      \* log of the FileAPI calls and buffer stores of the call

vars == <<pc, file, fileNo, pos, isOpen, values, maxNumbers, nNumbers, number,
          error, failure, result, nValues, sum, output, events>>

\* ---------------------------------------------------------------- bounds
MaxFileLen == 3
MaxBufLen == 3
MaxMaxNumbers == 2

\* ------------------------------------------------------------- constants
\* the capacity the main program passes to readNumbers
Capacity == 1000
\* the value of the global fileNo of the main program
GlobalFileNo == 1000

OpenMessage == "File could not be opened!"
\* str(Exception()) is the empty string
GenericMessage == ""

\* ------------------------------------------------------------ the files
Ints == {2, 5}
Tokens == {[ok |-> TRUE, val |-> v] : v \in Ints} \cup {[ok |-> FALSE, val |-> 0]}

SeqUpTo(S, n) == UNION {[1..k -> S] : k \in 0..n}

Files == {[exists |-> FALSE, tokens |-> <<>>]}
         \cup {[exists |-> TRUE, tokens |-> t] : t \in SeqUpTo(Tokens, MaxFileLen)}

\* what fileOpen returns for a file it cannot open
ErrorCodes == {-1, 0}
\* what fileOpen returns for a file it can open
FirstHandle == 1

fileEOF(f, p) == p > Len(f.tokens)
\* fileReadInt succeeds when the next token exists and is an integer
fileReadIntOk(f, p) == p >= 1 /\ p <= Len(f.tokens) /\ f.tokens[p].ok

\* ------------------------------------------------------------- helpers
RECURSIVE Count(_, _)
Count(s, x) == IF s = <<>> THEN 0
               ELSE (IF Head(s) = x THEN 1 ELSE 0) + Count(Tail(s), x)

RECURSIVE SumRange(_, _, _)
\* sum = 0.0; for k in range(0, n): sum = sum + vals[k], from index k on
SumRange(vals, k, n) == IF k >= n THEN 0 ELSE vals[k + 1] + SumRange(vals, k + 1, n)

Line(kind, text, num, den) == [kind |-> kind, text |-> text, num |-> num, den |-> den]
FailureLine(msg) == Line("failure", msg, 0, 1)
SumLine(s) == Line("sum", "sum = ", s, 1)
AverageLine(s, n) == Line("average", "average = ", s, n)

\* ------------------------------------------------------- readNumbers
\* nNumbers = 0; fileNo = fileOpen(fileName)
Open ==
    /\ pc = "open"
    /\ nNumbers' = 0
    /\ IF file.exists
          THEN /\ fileNo' = FirstHandle
               /\ isOpen' = TRUE
               /\ pos' = 1
          ELSE /\ \E e \in ErrorCodes : fileNo' = e
               /\ UNCHANGED <<isOpen, pos>>
    /\ events' = Append(events, "open")
    /\ pc' = "opened"
    /\ UNCHANGED <<file, values, maxNumbers, number, error, failure, result,
                   nValues, sum, output>>

\* CheckOpen with the test fileNo < 0: the handle 0 passes for an open file
CheckOpen_Strict ==
    /\ pc = "opened"
    /\ IF fileNo < 0
          THEN /\ failure' = OpenMessage
               /\ pc' = "raised"
          ELSE /\ pc' = "while"
               /\ UNCHANGED failure
    /\ UNCHANGED <<file, fileNo, pos, isOpen, values, maxNumbers, nNumbers,
                   number, error, result, nValues, sum, output, events>>

\* if (fileNo <= 0): raise Exception("File could not be opened!")
CheckOpen ==
    /\ pc = "opened"
    /\ IF fileNo <= 0
          THEN /\ failure' = OpenMessage
               /\ pc' = "raised"
          ELSE /\ pc' = "while"
               /\ UNCHANGED failure
    /\ UNCHANGED <<file, fileNo, pos, isOpen, values, maxNumbers, nNumbers,
                   number, error, result, nValues, sum, output, events>>

\* WhileGuard with the test nNumbers <= maxNumbers
WhileGuard_OffByOne ==
    /\ pc = "while"
    /\ events' = Append(events, "eof")
    /\ IF ~fileEOF(file, pos) /\ nNumbers <= maxNumbers
          THEN pc' = "read"
          ELSE pc' = "finally"
    /\ UNCHANGED <<file, fileNo, pos, isOpen, values, maxNumbers, nNumbers,
                   number, error, failure, result, nValues, sum, output>>

\* while (not fileEOF(fileNo) and nNumbers < maxNumbers)
WhileGuard ==
    /\ pc = "while"
    /\ events' = Append(events, "eof")
    /\ IF ~fileEOF(file, pos) /\ nNumbers < maxNumbers
          THEN pc' = "read"
          ELSE pc' = "finally"
    /\ UNCHANGED <<file, fileNo, pos, isOpen, values, maxNumbers, nNumbers,
                   number, error, failure, result, nValues, sum, output>>

\* number = fileReadInt(fileNo)
ReadInt ==
    /\ pc = "read"
    /\ events' = Append(events, "read")
    /\ IF fileReadIntOk(file, pos)
          THEN /\ number' = file.tokens[pos].val
               /\ pos' = pos + 1
               /\ pc' = "store"
               /\ UNCHANGED error
          ELSE /\ error' = "ReadError"
               /\ pc' = "finally"
               /\ UNCHANGED <<number, pos>>
    /\ UNCHANGED <<file, fileNo, isOpen, values, maxNumbers, nNumbers,
                   failure, result, nValues, sum, output>>

\* Store without the increment of nNumbers
Store_NoIncrement ==
    /\ pc = "store"
    /\ IF nNumbers < Len(values)
          THEN /\ values' = [values EXCEPT ![nNumbers + 1] = number]
               /\ events' = Append(events, "store")
               /\ pc' = "while"
               /\ UNCHANGED <<error, nNumbers>>
          ELSE /\ error' = "IndexError"
               /\ pc' = "finally"
               /\ UNCHANGED <<values, events, nNumbers>>
    /\ UNCHANGED <<file, fileNo, pos, isOpen, maxNumbers, number, failure,
                   result, nValues, sum, output>>

\* numbers[nNumbers] = number; nNumbers = nNumbers + 1
Store ==
    /\ pc = "store"
    /\ IF nNumbers < Len(values)
          THEN /\ values' = [values EXCEPT ![nNumbers + 1] = number]
               /\ events' = Append(events, "store")
               /\ nNumbers' = nNumbers + 1
               /\ pc' = "while"
               /\ UNCHANGED error
          ELSE /\ error' = "IndexError"
               /\ pc' = "finally"
               /\ UNCHANGED <<values, events, nNumbers>>
    /\ UNCHANGED <<file, fileNo, pos, isOpen, maxNumbers, number, failure,
                   result, nValues, sum, output>>

\* Finally as a close after the loop only: skipped when an exception is pending
Finally_SkipCloseOnError ==
    /\ pc = "finally"
    /\ IF error = "none"
          THEN /\ isOpen' = FALSE
               /\ events' = Append(events, "close")
          ELSE UNCHANGED <<isOpen, events>>
    /\ pc' = IF error # "none" THEN "except" ELSE "return"
    /\ UNCHANGED <<file, fileNo, pos, values, maxNumbers, nNumbers, number,
                   error, failure, result, nValues, sum, output>>

\* finally: fileClose(fileNo)
Finally ==
    /\ pc = "finally"
    /\ isOpen' = FALSE
    /\ events' = Append(events, "close")
    /\ pc' = IF error # "none" THEN "except" ELSE "return"
    /\ UNCHANGED <<file, fileNo, pos, values, maxNumbers, nNumbers, number,
                   error, failure, result, nValues, sum, output>>

\* Except re-raising with the cause as its description
Except_KeepCause ==
    /\ pc = "except"
    /\ failure' = error
    /\ pc' = "raised"
    /\ UNCHANGED <<file, fileNo, pos, isOpen, values, maxNumbers, nNumbers,
                   number, error, result, nValues, sum, output, events>>

\* except Exception, error: raise Exception()
Except ==
    /\ pc = "except"
    /\ failure' = GenericMessage
    /\ pc' = "raised"
    /\ UNCHANGED <<file, fileNo, pos, isOpen, values, maxNumbers, nNumbers,
                   number, error, result, nValues, sum, output, events>>

\* return nNumbers
Return ==
    /\ pc = "return"
    /\ result' = nNumbers
    /\ pc' = "returned"
    /\ UNCHANGED <<file, fileNo, pos, isOpen, values, maxNumbers, nNumbers,
                   number, error, failure, nValues, sum, output, events>>

\* ------------------------------------------------------ main program
\* file_name = input(...); if (fileNo > 0):
Input ==
    /\ pc = "input"
    /\ \E f \in Files : file' = f
    /\ pc' = IF GlobalFileNo > 0 THEN "call" ELSE "done"
    /\ UNCHANGED <<fileNo, pos, isOpen, values, maxNumbers, nNumbers, number,
                   error, failure, result, nValues, sum, output, events>>

\* values = []; nValues = 0; try: readNumbers(file_name, values, 1000)
Call ==
    /\ pc = "call"
    /\ values' = <<>>
    /\ nValues' = 0
    /\ maxNumbers' = Capacity
    /\ pc' = "open"
    /\ UNCHANGED <<file, fileNo, pos, isOpen, nNumbers, number, error,
                   failure, result, sum, output, events>>

\* nValues = readNumbers(...)
Assign ==
    /\ pc = "returned"
    /\ nValues' = result
    /\ pc' = "sum"
    /\ UNCHANGED <<file, fileNo, pos, isOpen, values, maxNumbers, nNumbers,
                   number, error, failure, result, sum, output, events>>

\* except Exception, failure: print(failure, sep=''); the exit is missing
Handler ==
    /\ pc = "raised"
    /\ output' = Append(output, FailureLine(failure))
    /\ pc' = "sum"
    /\ UNCHANGED <<file, fileNo, pos, isOpen, values, maxNumbers, nNumbers,
                   number, error, failure, result, nValues, sum, events>>

\* sum = 0.0; for k in range(0, nValues-1+1, 1): sum = sum + values[k]
Summation ==
    /\ pc = "sum"
    /\ IF nValues <= Len(values)
          THEN /\ sum' = SumRange(values, 0, nValues)
               /\ pc' = "printSum"
          ELSE /\ pc' = "indexError"
               /\ UNCHANGED sum
    /\ UNCHANGED <<file, fileNo, pos, isOpen, values, maxNumbers, nNumbers,
                   number, error, failure, result, nValues, output, events>>

\* print("sum = ", sum, sep='')
PrintSum ==
    /\ pc = "printSum"
    /\ output' = Append(output, SumLine(sum))
    /\ pc' = "printAverage"
    /\ UNCHANGED <<file, fileNo, pos, isOpen, values, maxNumbers, nNumbers,
                   number, error, failure, result, nValues, sum, events>>

\* PrintAverage with a test for zero: the average of no numbers printed as 0
PrintAverage_Guarded ==
    /\ pc = "printAverage"
    /\ output' = Append(output, AverageLine(IF nValues = 0 THEN 0 ELSE sum,
                                            IF nValues = 0 THEN 1 ELSE nValues))
    /\ pc' = "done"
    /\ UNCHANGED <<file, fileNo, pos, isOpen, values, maxNumbers, nNumbers,
                   number, error, failure, result, nValues, sum, events>>

\* print("average = ", sum / nValues, sep='')
PrintAverage ==
    /\ pc = "printAverage"
    /\ IF nValues = 0
          THEN /\ pc' = "zeroDivision"
               /\ UNCHANGED output
          ELSE /\ output' = Append(output, AverageLine(sum, nValues))
               /\ pc' = "done"
    /\ UNCHANGED <<file, fileNo, pos, isOpen, values, maxNumbers, nNumbers,
                   number, error, failure, result, nValues, sum, events>>

\* ------------------------------------------------------ specifications
Locals ==
    /\ fileNo = 0
    /\ pos = 0
    /\ isOpen = FALSE
    /\ nNumbers = 0
    /\ number = 0
    /\ error = "none"
    /\ failure = "none"
    /\ result = 0
    /\ nValues = 0
    /\ sum = 0
    /\ output = <<>>
    /\ events = <<>>

\* the program, started
Init ==
    /\ pc = "input"
    /\ file = [exists |-> FALSE, tokens |-> <<>>]
    /\ values = <<>>
    /\ maxNumbers = 0
    /\ Locals

ReadNumbers ==
    \/ Open
    \/ CheckOpen
    \/ WhileGuard
    \/ ReadInt
    \/ Store
    \/ Finally
    \/ Except
    \/ Return

Next ==
    \/ Input
    \/ Call
    \/ ReadNumbers
    \/ Assign
    \/ Handler
    \/ Summation
    \/ PrintSum
    \/ PrintAverage

Spec == Init /\ [][Next]_vars

\* readNumbers alone, called with any file, any buffer and any maximum
InitRead ==
    /\ pc = "open"
    /\ file \in Files
    /\ \E n \in 0..MaxBufLen : values = [i \in 1..n |-> 0]
    /\ maxNumbers \in -1..MaxMaxNumbers
    /\ Locals

SpecRead == InitRead /\ [][ReadNumbers]_vars

\* readNumbers runs to its end: every step of it is a step of sequential code
SpecReadFair == SpecRead /\ WF_vars(ReadNumbers)

\* readNumbers alone, called with the buffer of the main program (values = [])
InitCall ==
    /\ pc = "open"
    /\ file \in Files
    /\ values = <<>>
    /\ maxNumbers \in 0..MaxMaxNumbers
    /\ Locals

SpecCall == InitCall /\ [][ReadNumbers]_vars


\* ------------------------------------------------------------ properties
\* the caller observes the outcome of readNumbers: a count or a failure
Observed == pc \in {"returned", "raised"}
\* the main program has ended, normally or by an uncaught exception
Ended == pc \in {"done", "zeroDivision", "indexError"}

AllInts(t) == \A i \in 1..Len(t) : t[i].ok
Reads == Count(events, "read")
Stores == Count(events, "store")
Closes == Count(events, "close")
Printed(kind) == \E i \in 1..Len(output) : output[i].kind = kind
Max0(n) == IF n > 0 THEN n ELSE 0

\* C1: for a file of N integers, N <= maxNumbers, read into the buffer the
\* main program supplies, readNumbers returns N and numbers[0..N-1] are the
\* integers of the file in file order.
C1_ReadsWholeFile ==
    (Observed /\ file.exists /\ AllInts(file.tokens)
              /\ Len(file.tokens) <= maxNumbers)
    => /\ pc = "returned"
       /\ result = Len(file.tokens)
       /\ Len(values) >= Len(file.tokens)
       /\ \A i \in 1..Len(file.tokens) : values[i] = file.tokens[i].val

\* C2: when fileOpen gave a handle > 0, fileClose has been called on it
\* before the caller observes the outcome, on every exit path of the loop.
C2_ClosedBeforeOutcome ==
    (Observed /\ fileNo > 0) => (~isOpen /\ Closes >= 1)

\* the exit by a failing read, with the file closed
C2_Witness ==
    /\ pc = "raised"
    /\ fileNo > 0
    /\ error = "ReadError"
    /\ ~isOpen
    /\ events[Len(events)] = "close"

\* C3: when readNumbers raises, the main program prints the description of
\* the failure and nothing else: no "sum = " line and no "average = " line.
C3_FailureOnlyOutput ==
    Printed("failure") => (~Printed("sum") /\ ~Printed("average"))

\* C4: for a file of more than maxNumbers integers readNumbers returns
\* maxNumbers after exactly maxNumbers calls of fileReadInt.
C4_StopsAtMaximum ==
    (Observed /\ file.exists /\ AllInts(file.tokens)
              /\ Len(file.tokens) > maxNumbers)
    => /\ pc = "returned"
       /\ result = maxNumbers
       /\ Reads = maxNumbers

\* C5: 0 <= nNumbers <= maxNumbers in every state of readNumbers (for
\* maxNumbers >= 0), and the value returned is the number of values this
\* call stored into the buffer.
C5_CountBounded ==
    /\ maxNumbers >= 0 => (0 <= nNumbers /\ nNumbers <= maxNumbers)
    /\ pc = "returned" => result = Stores

\* a return at the maximum, with tokens left in the file
C5_Witness ==
    /\ pc = "returned"
    /\ maxNumbers >= 1
    /\ result = maxNumbers
    /\ Stores = maxNumbers
    /\ ~fileEOF(file, pos)

\* C6: the printed sum is the sum of the numbers read and the printed
\* average is that sum divided by their count; the file "5" gives the sum 5
\* and the average 5.
C6_SumAndAverage ==
    (Ended /\ file = [exists |-> TRUE, tokens |-> <<[ok |-> TRUE, val |-> 5]>>])
    => /\ Len(output) = 2
       /\ output[1] = SumLine(5)
       /\ output[2].kind = "average"
       /\ output[2].num = 5 * output[2].den

\* C7, as claimed: every failure of readNumbers reaches the caller as the
\* same generic failure, without a description that tells a failed open
\* from a failed read.
C7_OneOpaqueFailure ==
    /\ pc = "raised" => failure = GenericMessage
    /\ \A i \in 1..Len(output) :
          output[i].kind = "failure" => output[i].text = GenericMessage

\* C7, amended: a failure inside the loop reaches the caller as a generic
\* failure with an empty description, a failure to open with the
\* description "File could not be opened!"; the main program prints the
\* one it got.
C7_FailureDescriptions ==
    /\ pc = "raised" =>
          failure = (IF fileNo <= 0 THEN OpenMessage ELSE GenericMessage)
    /\ \A i \in 1..Len(output) :
          output[i].kind = "failure" =>
             output[i].text = (IF fileNo <= 0 THEN OpenMessage ELSE GenericMessage)

\* a failed read, printed with the empty description
C7_Witness ==
    /\ fileNo > 0
    /\ error # "none"
    /\ output = <<FailureLine(GenericMessage)>>

\* C8: for a file that opens and holds no integers readNumbers returns 0
\* without raising; the average is then computed with the divisor 0, which
\* is a division by zero, and that only after "sum = 0.0" was printed.
C8_EmptyFileDividesByZero ==
    /\ (Observed /\ file.exists /\ file.tokens = <<>>)
          => (pc = "returned" /\ result = 0)
    /\ (pc = "printAverage" /\ nValues = 0)
          => (output # <<>> /\ output[Len(output)] = SumLine(0))
    /\ pc = "zeroDivision"
          => (nValues = 0 /\ output # <<>> /\ output[Len(output)] = SumLine(0))
    /\ pc = "done" => nValues # 0

\* the empty file: the sum printed, the division by zero raised
C8_Witness ==
    /\ pc = "zeroDivision"
    /\ file.exists
    /\ file.tokens = <<>>
    /\ output = <<SumLine(0)>>

\* C9: in one call fileClose is called once if fileOpen gave a handle > 0
\* and never otherwise; no fileEOF or fileReadInt follows the fileClose or
\* is made on a handle <= 0.
C9_CloseOnceNoUseAfter ==
    /\ Closes <= 1
    /\ Observed => Closes = (IF fileNo > 0 THEN 1 ELSE 0)
    /\ \A i \in 1..Len(events) : \A j \in 1..Len(events) :
          (i < j /\ events[i] = "close") => events[j] \notin {"eof", "read"}
    /\ fileNo <= 0 =>
          \A i \in 1..Len(events) : events[i] \notin {"eof", "read", "close"}

\* a call that read a number and closed the file once
C9_Witness ==
    /\ pc = "returned"
    /\ fileNo > 0
    /\ Reads >= 1
    /\ Closes = 1

\* C10: readNumbers terminates for every file and every maxNumbers, after
\* at most max(maxNumbers, 0) iterations of the loop.
C10_Terminates ==
    /\ <>Observed
    /\ [](Reads <= Max0(maxNumbers))

\* a call ended by a failing read in the last iteration the maximum allows
C10_Witness ==
    /\ pc = "raised"
    /\ error = "ReadError"
    /\ maxNumbers >= 2
    /\ Reads = maxNumbers

====
